---- MODULE Spec2Model ----
(***************************************************************************)
(* Movie Rating System: the relational store (directors, genres, movies,   *)
(* the movie_genres bridge, movie_ratings), the repository queries, the    *)
(* service operations and the HTTP endpoints that call them.               *)
(*                                                                         *)
(* Conventions.  Optional[T] is a sequence of length at most one: None is  *)
(* <<>> and a value v is <<v>>.  A str is a sequence of one-character      *)
(* strings, so that substring and LIKE matching are computed.  A Decimal   *)
(* or float average is the exact fraction [num, den].  A session works on  *)
(* a private copy of the store; commit publishes it, an exception leaves   *)
(* the committed store as it was.                                          *)
(***************************************************************************)
EXTENDS Integers, Sequences, FiniteSets, Bags, TLC

VARIABLES
    directors,      \* table directors: the set of stored director ids
    genres,         \* table genres: genre id -> name
    movies,         \* table movies: movie id -> row
    movie_genres,   \* bridge table movie_genres: a bag of rows <<movie_id, genre_id>>
    movie_ratings,  \* table movie_ratings: a set of rows [id, movie_id, score]
    movie_id_seq,   \* next value of the serial movies.id
    rating_id_seq,  \* next value of the serial movie_ratings.id
    movie_times,    \* columns created_at, updated_at of movies: movie id -> row
    now,            \* the clock of the database server, read by func.now()
    resp,           \* the response of the last request
    tx,             \* the open session of each request worker: its position in
                    \* the handler and its uncommitted writes
    history         \* the responses returned so far, in order of return

vars == <<directors, genres, movies, movie_genres, movie_ratings,
          movie_id_seq, rating_id_seq, movie_times, now, resp, tx, history>>

---------------------------------------------------------------------------
(* Bounds of the model *)

\* movies.id values the serial may hand out
MaxMovieId == 2
\* movie_ratings.id values the serial may hand out
MaxRatingId == 3
\* largest page number requested
MaxPage == 3
\* movies.id values the serial may hand out while the list is explored
MaxListedMovies == 3
\* largest page_size requested (the program allows up to MaxPageSize)
MaxPageSizeTried == 3
\* request workers that run handlers at the same time
MaxSessions == 2
\* requests taken while requests are interleaved
MaxRequests == 3
\* largest value of the server clock
MaxNow == 2
\* movies.id values the serial may hand out while ratings are interleaved
MaxRatedMovies == 1

---------------------------------------------------------------------------
(* Program constants *)

MinReleaseYear == 1888
MaxReleaseYear == 2100
MinScore == 1
MaxScore == 10
MaxPageSize == 100
MaxTitleLen == 255

---------------------------------------------------------------------------
(* Python values *)

None == <<>>
Some(v) == <<v>>
IsNone(o) == Len(o) = 0
Val(o) == o[1]

\* str.lower() / the case folding of ILIKE, on the characters the model uses
Upper == <<"A", "B", "C", "D", "E", "F", "G", "H", "I", "J", "K", "L", "M",
           "N", "O", "P", "Q", "R", "S", "T", "U", "V", "W", "X", "Y", "Z">>
Letters == <<"a", "b", "c", "d", "e", "f", "g", "h", "i", "j", "k", "l", "m",
             "n", "o", "p", "q", "r", "s", "t", "u", "v", "w", "x", "y", "z">>

LowerOf == [c \in {Upper[i] : i \in 1..26} |->
               Letters[CHOOSE i \in 1..26 : Upper[i] = c]]

Lower(c) == IF c \in DOMAIN LowerOf THEN LowerOf[c] ELSE c

LowerStr(s) == [i \in 1..Len(s) |-> Lower(s[i])]

\* SQL LIKE: % matches any run of characters, _ matches exactly one character
RECURSIVE Like(_, _)
Like(s, pat) ==
    IF pat = <<>> THEN s = <<>>
    ELSE IF Head(pat) = "%"
         THEN Like(s, Tail(pat)) \/ (s # <<>> /\ Like(Tail(s), pat))
         ELSE /\ s # <<>>
              /\ (Head(pat) = "_" \/ Head(pat) = Head(s))
              /\ Like(Tail(s), Tail(pat))

\* column.ilike(pattern): LIKE on the case-folded operands
ilike(s, pat) == Like(LowerStr(s), LowerStr(pat))

\* sorted(set(xs)) for a set of integers
RECURSIVE SortedSeq(_)
SortedSeq(S) ==
    IF S = {} THEN <<>>
    ELSE LET m == CHOOSE x \in S : \A y \in S : x <= y
         IN  <<m>> \o SortedSeq(S \ {m})

SeqToSet(xs) == {xs[i] : i \in 1..Len(xs)}

---------------------------------------------------------------------------
(* The store as one value: what a session reads and what commit publishes *)

Db == [directors     |-> directors,
       genres        |-> genres,
       movies        |-> movies,
       movie_genres  |-> movie_genres,
       movie_ratings |-> movie_ratings,
       movie_id_seq  |-> movie_id_seq,
       rating_id_seq |-> rating_id_seq,
       movie_times   |-> movie_times,
       now           |-> now]

---------------------------------------------------------------------------
(* Storage engine and ORM mapping (app/models) *)

\* rows of the bridge whose movie_id is not m
BridgeWithout(bridge, m) ==
    [row \in {r \in DOMAIN bridge : r[1] # m} |-> bridge[row]]

\* Movie.genres: the genres reached through the bridge rows of movie m,
\* one entry per row, in id order
RECURSIVE GenreRows(_, _, _)
GenreRows(bridge, m, gs) ==
    IF gs = <<>> THEN <<>>
    ELSE LET g == Head(gs)
             n == IF <<m, g>> \in DOMAIN bridge THEN bridge[<<m, g>>] ELSE 0
         IN  [i \in 1..n |-> g] \o GenreRows(bridge, m, Tail(gs))

MovieGenres(s, m) == GenreRows(s.movie_genres, m, SortedSeq(DOMAIN s.genres))

\* the set of genre ids linked to movie m
GenreSet(s, m) == {r[2] : r \in {x \in DOMAIN s.movie_genres : x[1] = m}}

\* CHECK score >= 1 AND score <= 10 on movie_ratings
ck_movie_ratings_score_1_10(score) == score >= MinScore /\ score <= MaxScore

---------------------------------------------------------------------------
(* MoviesRepository *)

\* select(Movie).where(Movie.id == movie_id) with director and genres loaded
get_movie_by_id(s, movie_id) ==
    IF movie_id \in DOMAIN s.movies
    THEN Some([id           |-> movie_id,
               title        |-> s.movies[movie_id].title,
               director_id  |-> s.movies[movie_id].director_id,
               release_year |-> s.movies[movie_id].release_year,
               cast         |-> s.movies[movie_id].cast,
               genres       |-> MovieGenres(s, movie_id)])
    ELSE None

RECURSIVE SumScores(_)
SumScores(rows) ==
    IF rows = {} THEN 0
    ELSE LET r == CHOOSE x \in rows : TRUE
         IN  r.score + SumScores(rows \ {r})

\* the where clause left out: the aggregate runs over the ratings of all movies
get_rating_stats_all_movies(s, movie_id) ==
    LET rows == s.movie_ratings
        cnt_ == Cardinality(rows)
        avg_ == IF cnt_ = 0 THEN None
                ELSE Some([num |-> SumScores(rows), den |-> cnt_])
    IN  <<avg_, cnt_>>

\* select avg(score), count(id) where movie_id = :movie_id
get_rating_stats(s, movie_id) ==
    LET rows == {r \in s.movie_ratings : r.movie_id = movie_id}
        cnt_ == Cardinality(rows)
        avg_ == IF cnt_ = 0 THEN None
                ELSE Some([num |-> SumScores(rows), den |-> cnt_])
    IN  <<avg_, cnt_>>

\* "> 0" written ">= 0": every director id passes
director_exists_ge0(s, director_id) ==
    Cardinality({d \in s.directors : d = director_id}) >= 0

director_exists(s, director_id) ==
    Cardinality({d \in s.directors : d = director_id}) > 0

\* select(Genre).where(Genre.id.in_(genre_ids)); the empty list short-cuts
get_genres_by_ids(s, genre_ids) ==
    IF genre_ids = <<>> THEN <<>>
    ELSE SortedSeq({g \in DOMAIN s.genres : g \in SeqToSet(genre_ids)})

\* db.add(movie); db.flush(); db.refresh(movie): the row gets the next serial id
Repo_create_movie(s, movie) ==
    LET new_id == s.movie_id_seq
    IN  [s  |-> [s EXCEPT !.movies = [m \in DOMAIN s.movies \cup {new_id} |->
                                         IF m = new_id THEN movie ELSE s.movies[m]],
                          !.movie_times = [m \in DOMAIN s.movies \cup {new_id} |->
                                              IF m = new_id
                                              THEN [created_at |-> s.now,
                                                    updated_at |-> s.now]
                                              ELSE s.movie_times[m]],
                          !.movie_id_seq = new_id + 1],
         id |-> new_id]

\* the foreign key of movie_ratings without ON DELETE CASCADE handling: the
\* ratings of the deleted movie stay
Repo_delete_movie_keep_ratings(s, movie_id) ==
    [s EXCEPT !.movies = [m \in DOMAIN s.movies \ {movie_id} |-> s.movies[m]],
              !.movie_times = [m \in DOMAIN s.movies \ {movie_id} |-> s.movie_times[m]],
              !.movie_genres = BridgeWithout(s.movie_genres, movie_id)]

\* db.delete(movie): the ORM removes the movie's rows of the secondary table,
\* the storage engine removes its ratings (ON DELETE CASCADE)
Repo_delete_movie(s, movie_id) ==
    [s EXCEPT !.movies = [m \in DOMAIN s.movies \ {movie_id} |-> s.movies[m]],
              !.movie_times = [m \in DOMAIN s.movies \ {movie_id} |-> s.movie_times[m]],
              !.movie_genres = BridgeWithout(s.movie_genres, movie_id),
              !.movie_ratings = {r \in s.movie_ratings : r.movie_id # movie_id}]

\* every row of the insert sent twice
RECURSIVE InsertRows_twice(_, _, _)
InsertRows_twice(bridge, movie_id, genre_ids) ==
    IF genre_ids = <<>> THEN bridge
    ELSE InsertRows_twice(bridge (+) SetToBag({<<movie_id, Head(genre_ids)>>})
                                 (+) SetToBag({<<movie_id, Head(genre_ids)>>}),
                          movie_id, Tail(genre_ids))

RECURSIVE InsertRows(_, _, _)
InsertRows(bridge, movie_id, genre_ids) ==
    IF genre_ids = <<>> THEN bridge
    ELSE InsertRows(bridge (+) SetToBag({<<movie_id, Head(genre_ids)>>}),
                    movie_id, Tail(genre_ids))

\* the delete left out: the new rows are added to the old ones
replace_movie_genres_append(s, movie_id, genre_ids) ==
    [s EXCEPT !.movie_genres = InsertRows(s.movie_genres, movie_id, genre_ids)]

\* delete the movie's bridge rows, then insert one row per given id
replace_movie_genres(s, movie_id, genre_ids) ==
    [s EXCEPT !.movie_genres =
        InsertRows(BridgeWithout(s.movie_genres, movie_id), movie_id, genre_ids)]

\* the id taken from the serial is not consumed: the next insert gets it again
Repo_create_rating_same_id(s, movie_id, score) ==
    LET new_id == s.rating_id_seq
        rating == [id |-> new_id, movie_id |-> movie_id, score |-> score]
    IN  [ok     |-> ck_movie_ratings_score_1_10(score),
         s      |-> [s EXCEPT !.movie_ratings = s.movie_ratings \cup {rating}],
         rating |-> rating]

\* db.add(rating); db.flush(): the insert is subject to the CHECK constraint
Repo_create_rating(s, movie_id, score) ==
    LET new_id == s.rating_id_seq
        rating == [id |-> new_id, movie_id |-> movie_id, score |-> score]
    IN  [ok     |-> ck_movie_ratings_score_1_10(score),
         s      |-> [s EXCEPT !.movie_ratings = s.movie_ratings \cup {rating},
                              !.rating_id_seq = new_id + 1],
         rating |-> rating]

\* "if title_filter:" / "if genre_filter:": None and the empty string are falsy
Truthy(o) == ~IsNone(o) /\ Val(o) # <<>>

\* and_(*conditions): the filter conditions of get_movies_paginated on movie m
Conditions(s, m, title_filter, release_year_filter, genre_filter) ==
    /\ Truthy(title_filter) =>
          ilike(s.movies[m].title, <<"%">> \o Val(title_filter) \o <<"%">>)
    /\ ~IsNone(release_year_filter) =>
          s.movies[m].release_year = Val(release_year_filter)
    /\ Truthy(genre_filter) =>
          m \in {row[1] : row \in
                    {r \in DOMAIN s.movie_genres :
                        /\ r[2] \in DOMAIN s.genres
                        /\ ilike(s.genres[r[2]],
                                 <<"%">> \o Val(genre_filter) \o <<"%">>)}}

\* the offset computed from page instead of page - 1: the first page is skipped
OffsetLimit_next_page(rows, offset, limit) ==
    IF offset + limit >= Len(rows) THEN <<>>
    ELSE SubSeq(rows, offset + limit + 1,
                IF offset + 2 * limit <= Len(rows) THEN offset + 2 * limit ELSE Len(rows))

\* stmt.offset(offset).limit(page_size) on rows already ordered
OffsetLimit(rows, offset, limit) ==
    IF offset >= Len(rows) THEN <<>>
    ELSE SubSeq(rows, offset + 1,
                IF offset + limit <= Len(rows) THEN offset + limit ELSE Len(rows))

get_movies_paginated(s, page, page_size, title_filter, release_year_filter,
                     genre_filter) ==
    LET matching == {m \in DOMAIN s.movies :
                        Conditions(s, m, title_filter, release_year_filter,
                                   genre_filter)}
        total_count == Cardinality(matching)
        offset == (page - 1) * page_size
        ordered == SortedSeq(matching)
    IN  <<OffsetLimit(ordered, offset, page_size), total_count>>

---------------------------------------------------------------------------
(* Session and error handling (app/db/session.py, app/exceptions) *)

\* the flush of the unit of work: an UPDATE is emitted for each loaded movie
\* with a net change in a column, and onupdate=func.now() sets its updated_at
flush(db, s) ==
    [s EXCEPT !.movie_times =
        [m \in DOMAIN s.movies |->
            IF m \in DOMAIN db.movies /\ s.movies[m] # db.movies[m]
            THEN [s.movie_times[m] EXCEPT !.updated_at = s.now]
            ELSE s.movie_times[m]]]

\* db.commit(): the session is flushed and its work becomes the committed store
commit(db, s) == flush(db, s)

\* autocommit=False: a session that ends without commit publishes nothing
rollback(db, s) == db

Result(db, code, message, data) ==
    [db |-> db, code |-> code, message |-> message, data |-> data]

\* raise APIError(code, message) out of a session whose work so far is s
Raise(db, s, code, message) == Result(rollback(db, s), code, message, None)

NotFoundError(db, s, message) == Raise(db, s, 404, message)
BadRequestError(db, s, message) == Raise(db, s, 400, message)
UnprocessableEntityError(db, s, message) == Raise(db, s, 422, message)

---------------------------------------------------------------------------
(* Request schemas (app/schemas): what pydantic accepts *)

MovieCreate(payload) ==
    /\ Len(payload.title) >= 1
    /\ Len(payload.title) <= MaxTitleLen
    /\ payload.release_year >= MinReleaseYear
    /\ payload.release_year <= MaxReleaseYear

MovieUpdate(payload) ==
    /\ ~IsNone(payload.title) =>
          Len(Val(payload.title)) >= 1 /\ Len(Val(payload.title)) <= MaxTitleLen
    /\ ~IsNone(payload.release_year) =>
          /\ Val(payload.release_year) >= MinReleaseYear
          /\ Val(payload.release_year) <= MaxReleaseYear

\* Field(..., ge=1) without le=10
RatingCreate_no_upper(payload) == payload.score >= MinScore

RatingCreate(payload) ==
    payload.score >= MinScore /\ payload.score <= MaxScore

---------------------------------------------------------------------------
(* MoviesService *)

\* float(avg_score) if avg_score is not None else None
AvgVal(avg_score) == IF IsNone(avg_score) THEN None ELSE avg_score

get_movie_detail(db, movie_id) ==
    LET movie == get_movie_by_id(db, movie_id)
    IN  IF IsNone(movie) THEN NotFoundError(db, db, "Movie not found")
        ELSE LET stats == get_rating_stats(db, movie_id)
             IN  Result(db, 200, "",
                    Some([id             |-> Val(movie).id,
                          title          |-> Val(movie).title,
                          director       |-> Val(movie).director_id,
                          release_year   |-> Val(movie).release_year,
                          cast           |-> Val(movie).cast,
                          genres         |-> Val(movie).genres,
                          average_rating |-> AvgVal(stats[1]),
                          ratings_count  |-> stats[2]]))

create_movie(db, payload) ==
    IF ~director_exists(db, payload.director_id)
    THEN BadRequestError(db, db, "director_id does not exist")
    ELSE
    LET unique_genre_ids == SortedSeq(SeqToSet(payload.genre_ids))
        found == get_genres_by_ids(db, unique_genre_ids)
    IN  IF Len(found) # Len(unique_genre_ids)
        THEN BadRequestError(db, db, "One or more genre_ids do not exist")
        ELSE
        LET movie == [title        |-> payload.title,
                      director_id  |-> payload.director_id,
                      release_year |-> payload.release_year,
                      cast         |-> payload.cast]
            created == Repo_create_movie(db, movie)
            s2 == replace_movie_genres(created.s, created.id, unique_genre_ids)
            committed == commit(db, s2)
        IN  Result(committed, 200, "",
                   get_movie_detail(committed, created.id).data)

\* "if payload.cast is not None" dropped: cast is assigned whenever the request is
assign_fields_cast_always(s, movie_id, payload) ==
    [s EXCEPT !.movies[movie_id] =
        [title        |-> IF IsNone(payload.title) THEN @.title ELSE Val(payload.title),
         director_id  |-> IF IsNone(payload.director_id) THEN @.director_id
                          ELSE Val(payload.director_id),
         release_year |-> IF IsNone(payload.release_year) THEN @.release_year
                          ELSE Val(payload.release_year),
         cast         |-> payload.cast]]

\* the assignments of update_movie to the loaded Movie: only fields that are not None
assign_fields(s, movie_id, payload) ==
    LET s1 == IF ~IsNone(payload.director_id)
              THEN [s EXCEPT !.movies[movie_id].director_id = Val(payload.director_id)]
              ELSE s
        s2 == IF ~IsNone(payload.title)
              THEN [s1 EXCEPT !.movies[movie_id].title = Val(payload.title)]
              ELSE s1
        s3 == IF ~IsNone(payload.release_year)
              THEN [s2 EXCEPT !.movies[movie_id].release_year = Val(payload.release_year)]
              ELSE s2
    IN  IF ~IsNone(payload.cast)
        THEN [s3 EXCEPT !.movies[movie_id].cast = payload.cast]
        ELSE s3

\* db.commit() placed before the genre check: the assigned fields are published
\* even when the genre_ids are then refused
update_movie_commit_first(db, movie_id, payload) ==
    IF IsNone(get_movie_by_id(db, movie_id))
    THEN NotFoundError(db, db, "Movie not found")
    ELSE
    IF ~IsNone(payload.director_id) /\ ~director_exists(db, Val(payload.director_id))
    THEN BadRequestError(db, db, "director_id does not exist")
    ELSE
    LET s4 == commit(db, assign_fields(db, movie_id, payload))
    IN  IF IsNone(payload.genre_ids)
        THEN Result(s4, 200, "", get_movie_detail(s4, movie_id).data)
        ELSE
        LET unique_genre_ids == SortedSeq(SeqToSet(Val(payload.genre_ids)))
            found == get_genres_by_ids(s4, unique_genre_ids)
        IN  IF Len(found) # Len(unique_genre_ids)
            THEN BadRequestError(s4, s4, "One or more genre_ids do not exist")
            ELSE LET committed == commit(s4, replace_movie_genres(s4, movie_id,
                                                                  unique_genre_ids))
                 IN  Result(committed, 200, "",
                            get_movie_detail(committed, movie_id).data)

update_movie(db, movie_id, payload) ==
    IF IsNone(get_movie_by_id(db, movie_id))
    THEN NotFoundError(db, db, "Movie not found")
    ELSE
    IF ~IsNone(payload.director_id) /\ ~director_exists(db, Val(payload.director_id))
    THEN BadRequestError(db, db, "director_id does not exist")
    ELSE
    LET s4 == assign_fields(db, movie_id, payload)
    IN  IF IsNone(payload.genre_ids)
        THEN LET committed == commit(db, s4)
             IN  Result(committed, 200, "", get_movie_detail(committed, movie_id).data)
        ELSE
        LET unique_genre_ids == SortedSeq(SeqToSet(Val(payload.genre_ids)))
            found == get_genres_by_ids(s4, unique_genre_ids)
        IN  IF Len(found) # Len(unique_genre_ids)
            THEN BadRequestError(db, s4, "One or more genre_ids do not exist")
            ELSE LET s5 == replace_movie_genres(s4, movie_id, unique_genre_ids)
                     committed == commit(db, s5)
                 IN  Result(committed, 200, "",
                            get_movie_detail(committed, movie_id).data)

delete_movie(db, movie_id) ==
    IF IsNone(get_movie_by_id(db, movie_id))
    THEN NotFoundError(db, db, "Movie not found")
    ELSE Result(commit(db, Repo_delete_movie(db, movie_id)), 200, "", None)

\* one MovieListItemOut per returned row, with its rating statistics
ListItem(db, m) ==
    LET stats == get_rating_stats(db, m)
        gs == MovieGenres(db, m)
    IN  [id             |-> m,
         title          |-> db.movies[m].title,
         release_year   |-> db.movies[m].release_year,
         director       |-> db.movies[m].director_id,
         genres         |-> [i \in 1..Len(gs) |-> db.genres[gs[i]]],
         average_rating |-> AvgVal(stats[1]),
         ratings_count  |-> stats[2]]

get_movies_list(db, page, page_size, title, release_year, genre) ==
    IF page < 1
    THEN UnprocessableEntityError(db, db, "page must be >= 1")
    ELSE IF page_size < 1 \/ page_size > MaxPageSize
    THEN UnprocessableEntityError(db, db, "page_size must be between 1 and 100")
    ELSE IF /\ ~IsNone(release_year)
            /\ (Val(release_year) < MinReleaseYear \/ Val(release_year) > MaxReleaseYear)
    THEN UnprocessableEntityError(db, db, "Invalid release_year")
    ELSE
    LET got == get_movies_paginated(db, page, page_size, title, release_year, genre)
        rows == got[1]
    IN  Result(db, 200, "",
               Some([page        |-> page,
                     page_size   |-> page_size,
                     total_items |-> got[2],
                     items       |-> [i \in 1..Len(rows) |-> ListItem(db, rows[i])]]))

\* the existence check of the movie left out
create_rating_unchecked(db, movie_id, payload) ==
    LET ins == Repo_create_rating(db, movie_id, payload.score)
    IN  IF ~ins.ok
        THEN Raise(db, ins.s, 500, "IntegrityError")
        ELSE Result(commit(db, ins.s), 200, "",
                    Some([rating_id |-> ins.rating.id,
                          movie_id  |-> ins.rating.movie_id,
                          score     |-> ins.rating.score]))

create_rating(db, movie_id, payload) ==
    IF IsNone(get_movie_by_id(db, movie_id))
    THEN NotFoundError(db, db, "Movie not found")
    ELSE LET ins == Repo_create_rating(db, movie_id, payload.score)
         IN  IF ~ins.ok
             THEN Raise(db, ins.s, 500, "IntegrityError")
             ELSE Result(commit(db, ins.s), 200, "",
                         Some([rating_id |-> ins.rating.id,
                               movie_id  |-> ins.rating.movie_id,
                               score     |-> ins.rating.score]))

---------------------------------------------------------------------------
(* Endpoints (app/controller/movies.py): schema validation, the service    *)
(* call, the status code of the route                                      *)

RequestValidationError(db) == Result(db, 422, "validation error", None)

WithStatus(r, status) == IF r.code = 200 THEN [r EXCEPT !.code = status] ELSE r

GET_movies(db, page, page_size, title, release_year, genre) ==
    IF \/ page < 1
       \/ page_size < 1 \/ page_size > MaxPageSize
       \/ /\ ~IsNone(release_year)
          /\ (Val(release_year) < MinReleaseYear \/ Val(release_year) > MaxReleaseYear)
    THEN RequestValidationError(db)
    ELSE get_movies_list(db, page, page_size, title, release_year, genre)

GET_movies_id(db, movie_id) == get_movie_detail(db, movie_id)

POST_movies(db, payload) ==
    IF ~MovieCreate(payload) THEN RequestValidationError(db)
    ELSE WithStatus(create_movie(db, payload), 201)

PUT_movies_id(db, movie_id, payload) ==
    IF ~MovieUpdate(payload) THEN RequestValidationError(db)
    ELSE update_movie(db, movie_id, payload)

DELETE_movies_id(db, movie_id) == WithStatus(delete_movie(db, movie_id), 204)

POST_movies_id_ratings(db, movie_id, payload) ==
    IF ~RatingCreate(payload) THEN RequestValidationError(db)
    ELSE WithStatus(create_rating(db, movie_id, payload), 201)

---------------------------------------------------------------------------
(* Inputs of the model *)

Drama == <<"D", "r", "a", "m", "a">>
Comedy == <<"C", "o", "m", "e", "d", "y">>

\* The payloads a claim ranges over: every combination of these field values
Titles == {<<"a">>, <<"A", "b">>}
DirectorIds == {1, 2, 3}
Years == {1888, 2000}
Casts == {None, Some("x")}
GenreIdLists == {<<>>, <<1>>, <<2>>, <<3>>, <<1, 2>>, <<1, 1>>, <<1, 3>>}
\* movie ids a request may name: every id the serial hands out, and two it never does
MovieIds == 0..(MaxMovieId + 1)
Scores == {0, 1, 4, 6, 8, 10, 11}

Opt(S) == {None} \cup {Some(v) : v \in S}

CreatePayloads ==
    [title : Titles, director_id : DirectorIds, release_year : Years,
     cast : Casts, genre_ids : GenreIdLists]

UpdatePayloads ==
    [title : Opt(Titles), director_id : Opt(DirectorIds),
     release_year : Opt(Years), cast : Casts, genre_ids : Opt(GenreIdLists)]

RatingPayloads == [score : Scores]

Pages == 1..MaxPage
PageSizes == (1..MaxPageSizeTried) \cup {MaxPageSize}
TitleFilters == Opt({<<>>, <<"a">>, <<"A">>, <<"b">>, <<"a", "b">>, <<"b", "a">>})
YearFilters == Opt(Years)
GenreFilters == Opt({<<>>, <<"d", "r", "a">>, <<"D", "R">>, <<"m">>, <<"x">>})
\* filter strings that hold a LIKE wildcard
WildTitleFilters == {Some(<<"_">>), Some(<<"%">>), Some(<<"a", "_">>)}
WildGenreFilters == {Some(<<"_">>), Some(<<"%">>), Some(<<"d", "_", "a">>)}

\* The requests the endpoints receive while the store is explored: one per
\* branch of the handlers
Plain ==
    [title |-> <<"a">>, director_id |-> 1, release_year |-> 1888,
     cast |-> None, genre_ids |-> <<>>]

Absent ==
    [title |-> None, director_id |-> None, release_year |-> None,
     cast |-> None, genre_ids |-> None]

CreateInputs ==
    {Plain,
     [Plain EXCEPT !.genre_ids = <<2, 1, 2>>],
     [Plain EXCEPT !.director_id = 3, !.genre_ids = <<1>>],
     [Plain EXCEPT !.genre_ids = <<1, 3>>]}

UpdateInputs ==
    {Absent,
     [Absent EXCEPT !.director_id = Some(2), !.release_year = Some(2000),
                    !.cast = Some("x")],
     [Absent EXCEPT !.director_id = Some(3), !.title = Some(<<"A", "b">>)],
     [Absent EXCEPT !.genre_ids = Some(<<>>)],
     [Absent EXCEPT !.genre_ids = Some(<<2>>)],
     [Absent EXCEPT !.title = Some(<<"A", "b">>), !.genre_ids = Some(<<3, 1>>)]}

\* the request workers, and a worker with no request
Sessions == 1..MaxSessions

Idle ==
    [pc |-> "idle", op |-> "none", movie_id |-> 0, payload |-> None,
     loaded |-> None, assigned |-> None, del |-> EmptyBag, ins |-> EmptyBag,
     times |-> None, rating |-> None, view |-> None, states |-> {}]

---------------------------------------------------------------------------
(* The state machine: one action per endpoint *)

Init ==
    /\ directors = {1, 2}
    /\ genres = (1 :> Drama) @@ (2 :> Comedy)
    /\ movies = <<>>
    /\ movie_genres = EmptyBag
    /\ movie_ratings = {}
    /\ movie_id_seq = 1
    /\ rating_id_seq = 1
    /\ movie_times = <<>>
    /\ now = 0
    /\ resp = [op |-> "none", code |-> 0, message |-> ""]
    /\ tx = [w \in Sessions |-> Idle]
    /\ history = <<>>

\* the committed store becomes s
Install(s) ==
    /\ directors' = s.directors
    /\ genres' = s.genres
    /\ movies' = s.movies
    /\ movie_genres' = s.movie_genres
    /\ movie_ratings' = s.movie_ratings
    /\ movie_id_seq' = s.movie_id_seq
    /\ rating_id_seq' = s.rating_id_seq
    /\ movie_times' = s.movie_times
    /\ now' = now

\* a request handled from start to end with no other request in between
Publish(r) ==
    /\ Install(r.db)
    /\ UNCHANGED <<tx, history>>

Respond(op, r) == resp' = [op |-> op, code |-> r.code, message |-> r.message]

CreateMovie(payloads, max_id) ==
    /\ movie_id_seq <= max_id
    /\ \E payload \in payloads :
          \E r \in {POST_movies(Db, payload)} :
              Publish(r) /\ Respond("create_movie", r)

UpdateMovie(payloads) ==
    \E movie_id \in 1..MaxMovieId, payload \in payloads :
        \E r \in {PUT_movies_id(Db, movie_id, payload)} :
            Publish(r) /\ Respond("update_movie", r)

DeleteMovie ==
    \E movie_id \in 1..MaxMovieId :
        \E r \in {DELETE_movies_id(Db, movie_id)} :
            Publish(r) /\ Respond("delete_movie", r)

GetMovieDetail ==
    \E movie_id \in 1..MaxMovieId :
        \E r \in {GET_movies_id(Db, movie_id)} :
            Publish(r) /\ Respond("get_movie_detail", r)

CreateRating(payloads) ==
    /\ rating_id_seq <= MaxRatingId
    /\ \E movie_id \in 1..MaxMovieId, payload \in payloads :
          \E r \in {POST_movies_id_ratings(Db, movie_id, payload)} :
              Publish(r) /\ Respond("create_rating", r)

ListMovies(params) ==
    \E q \in params :
        \E r \in {GET_movies(Db, q.page, q.page_size, q.title, q.release_year, q.genre)} :
            Publish(r) /\ Respond("get_movies_list", r)

\* Movie creation, update and deletion
Next ==
    \/ CreateMovie(CreateInputs, MaxMovieId)
    \/ UpdateMovie(UpdateInputs)
    \/ DeleteMovie

Spec == Init /\ [][Next]_vars

\* Ratings: movies with genre links are created and deleted, ratings of valid
\* and invalid scores are posted, the aggregate is read through detail and list
RatingCreateInputs ==
    {[Plain EXCEPT !.genre_ids = <<1, 2>>], [Plain EXCEPT !.release_year = 3000]}
RatingUpdateInputs ==
    {Absent, [Absent EXCEPT !.director_id = Some(3)],
     [Absent EXCEPT !.release_year = Some(3000)]}
RatingListInputs ==
    [page : {1}, page_size : {0, 2}, title : {None}, release_year : {None},
     genre : {None}]
RatingInputs == [score : {0, 4, 6, 8, 11}]

NextRatings ==
    \/ CreateMovie(RatingCreateInputs, MaxMovieId)
    \/ UpdateMovie(RatingUpdateInputs)
    \/ DeleteMovie
    \/ GetMovieDetail
    \/ CreateRating(RatingInputs)
    \/ ListMovies(RatingListInputs)

SpecRatings == Init /\ [][NextRatings]_vars

\* Listing: movies of different titles, years and genre links are created and
\* the list is requested with filters, pages and page sizes
ListCreateInputs ==
    {Plain,
     [Plain EXCEPT !.title = <<"A", "b">>, !.release_year = 2000, !.genre_ids = <<1>>],
     [Plain EXCEPT !.release_year = 2000, !.genre_ids = <<2>>],
     [Plain EXCEPT !.title = <<"A", "b">>, !.genre_ids = <<1, 2>>]}
ListInputs ==
    [page : {0, 1, 2}, page_size : {1, 2, MaxPageSize + 1},
     title : {None, Some(<<"a">>), Some(<<"_">>)},
     release_year : {None, Some(2000), Some(MaxReleaseYear + 1)},
     genre : {None, Some(<<"d", "r", "a">>), Some(<<>>)}]

NextList ==
    \/ CreateMovie(ListCreateInputs, MaxListedMovies)
    \/ ListMovies(ListInputs)

SpecList == Init /\ [][NextList]_vars

---------------------------------------------------------------------------
(* Interleaved requests.  Each worker runs one handler in its own session  *)
(* and transaction; a step is one SQL statement, or the commit.  The store  *)
(* is PostgreSQL at its default isolation level, READ COMMITTED: a         *)
(* statement reads what is committed when it starts, uncommitted writes    *)
(* are seen by their session only, a serial hands out its next value at    *)
(* the INSERT and does not take it back, and a DELETE waits for rows       *)
(* another open transaction has deleted.                                   *)

\* the bridge rows of movie m
BridgeOf(bridge, m) ==
    [row \in {r \in DOMAIN bridge : r[1] = m} |-> bridge[row]]

\* the rows an open transaction has deleted or inserted and holds locked
HasWritten(t) == t.pc \in {"deleted", "ready"}

\* transaction t holds a lock that a DELETE of movie m must wait for: a
\* bridge row of m it deleted, or the key of m referenced by a row it inserted
LocksMovie(t, m) ==
    /\ HasWritten(t)
    /\ t.movie_id = m
    /\ t.del # EmptyBag \/ t.ins # EmptyBag \/ ~IsNone(t.rating)

\* what the other sessions keep of a commit that makes s the committed store
\* and removes the bridge rows killed: a DELETE that waits skips the rows
\* that are gone, and the states a reader could have seen gain one
Observed(t, s, killed) ==
    [v \in Sessions |->
        IF t[v].pc = "deleting"
        THEN [t[v] EXCEPT !.del = @ (-) killed]
        ELSE IF t[v].op = "get_movie_detail"
        THEN [t[v] EXCEPT !.states = @ \cup {get_movie_detail(s, t[v].movie_id).data}]
        ELSE t[v]]

\* the response goes out
Return(op, movie_id, request, code, message, data, states) ==
    /\ resp' = [op |-> op, code |-> code, message |-> message]
    /\ history' = Append(history,
                         [op |-> op, movie_id |-> movie_id, request |-> request,
                          code |-> code, data |-> data, states |-> states])

\* worker w is free and takes a request while fewer than MaxRequests were taken
Accepts(w) ==
    /\ tx[w].pc = "idle"
    /\ Len(history) + Cardinality({v \in Sessions : tx[v].pc # "idle"}) < MaxRequests

\* the request is refused before its session has written anything
Refuse(op, movie_id, request, r) ==
    /\ Return(op, movie_id, request, r.code, r.message, None, {})
    /\ UNCHANGED <<directors, genres, movies, movie_genres, movie_ratings,
                   movie_id_seq, rating_id_seq, movie_times, now, tx>>

\* the session of worker w fails after writes: they are rolled back
Abort(w, code, message) ==
    /\ Return(tx[w].op, tx[w].movie_id, tx[w].payload, code, message, None, {})
    /\ tx' = [tx EXCEPT ![w] = Idle]

\* a step inside the session of worker w: nothing is committed or returned
Step(w, t) ==
    /\ tx' = [tx EXCEPT ![w] = t]
    /\ UNCHANGED <<directors, genres, movies, movie_genres, movie_ratings,
                   movie_id_seq, rating_id_seq, movie_times, now, resp, history>>

UnchangedStore ==
    UNCHANGED <<directors, genres, movies, movie_genres, movie_ratings,
                movie_id_seq, rating_id_seq, movie_times, now>>

\* create_movie up to MoviesRepository.create_movie: the validations, then
\* db.add(movie); db.flush(), which takes the id from the serial
CreateMovieFlush(w, payloads, max_id) ==
    /\ Accepts(w)
    /\ movie_id_seq <= max_id
    /\ \E payload \in payloads :
          \E r \in {POST_movies(Db, payload)} :
              IF r.code # 201
              THEN Refuse("create_movie", 0, payload, r)
              ELSE \E created \in {Repo_create_movie(Db,
                                       [title        |-> payload.title,
                                        director_id  |-> payload.director_id,
                                        release_year |-> payload.release_year,
                                        cast         |-> payload.cast])} :
                   /\ movie_id_seq' = created.s.movie_id_seq
                   /\ tx' = [tx EXCEPT ![w] =
                                [Idle EXCEPT !.pc = "flushed", !.op = "create_movie",
                                             !.movie_id = created.id,
                                             !.payload = payload,
                                             !.assigned = Some(created.s.movies[created.id]),
                                             !.times =
                                                 Some(created.s.movie_times[created.id])]]
                   /\ UNCHANGED <<directors, genres, movies, movie_genres,
                                  movie_ratings, rating_id_seq, movie_times, now,
                                  resp, history>>

\* create_movie: replace_movie_genres for the new id
CreateMovieLink(w) ==
    /\ tx[w].pc = "flushed"
    /\ Step(w, [tx[w] EXCEPT !.pc = "ready",
                             !.ins = InsertRows(EmptyBag, tx[w].movie_id,
                                        SortedSeq(SeqToSet(tx[w].payload.genre_ids)))])

\* update_movie up to the genre check: the movie is loaded, the director is
\* checked, the fields are assigned in memory, the genre ids are checked
UpdateMovieLoad(w, movie_ids, payloads) ==
    /\ Accepts(w)
    /\ \E movie_id \in movie_ids, payload \in payloads :
          \E r \in {PUT_movies_id(Db, movie_id, payload)} :
              IF r.code # 200
              THEN Refuse("update_movie", movie_id, payload, r)
              ELSE Step(w, [Idle EXCEPT
                              !.pc = IF IsNone(payload.genre_ids) THEN "ready"
                                     ELSE "validated",
                              !.op = "update_movie",
                              !.movie_id = movie_id,
                              !.payload = payload,
                              !.loaded = Some(movies[movie_id]),
                              !.assigned =
                                  Some(assign_fields(Db, movie_id, payload).movies[movie_id])])

\* replace_movie_genres: the DELETE starts and sees the committed rows of the movie
UpdateMovieDeleteStart(w) ==
    /\ tx[w].pc = "validated"
    /\ Step(w, [tx[w] EXCEPT !.pc = "deleting",
                             !.del = BridgeOf(movie_genres, tx[w].movie_id)])

\* replace_movie_genres: the DELETE ends, once no other open transaction
\* holds one of its rows
UpdateMovieDeleteEnd(w) ==
    /\ tx[w].pc = "deleting"
    /\ \A v \in Sessions \ {w} :
          HasWritten(tx[v]) => DOMAIN tx[v].del \cap DOMAIN tx[w].del = {}
    /\ Step(w, [tx[w] EXCEPT !.pc = "deleted"])

\* replace_movie_genres: the INSERT of one row per id; the row references the movie
UpdateMovieInsert(w) ==
    /\ tx[w].pc = "deleted"
    /\ IF tx[w].movie_id \notin DOMAIN movies
       THEN Abort(w, 500, "IntegrityError") /\ UnchangedStore
       ELSE Step(w, [tx[w] EXCEPT
                       !.pc = "ready",
                       !.ins = InsertRows(EmptyBag, tx[w].movie_id,
                                  SortedSeq(SeqToSet(Val(tx[w].payload.genre_ids))))])

\* MoviesService.create_rating: the movie is looked up
CreateRatingCheck(w, movie_ids, payloads) ==
    /\ Accepts(w)
    /\ rating_id_seq <= MaxRatingId
    /\ \E movie_id \in movie_ids, payload \in payloads :
          \E r \in {POST_movies_id_ratings(Db, movie_id, payload)} :
              IF r.code # 201
              THEN Refuse("create_rating", movie_id, payload, r)
              ELSE Step(w, [Idle EXCEPT !.pc = "checked", !.op = "create_rating",
                                        !.movie_id = movie_id, !.payload = payload])

\* MoviesRepository.create_rating: db.add(rating); db.flush() takes the id
\* from the serial; the row references the movie
CreateRatingFlush(w) ==
    /\ tx[w].pc = "checked"
    /\ \E ins \in {Repo_create_rating(Db, tx[w].movie_id, tx[w].payload.score)} :
          /\ rating_id_seq' = ins.s.rating_id_seq
          /\ IF ~ins.ok \/ tx[w].movie_id \notin DOMAIN movies
             THEN Abort(w, 500, "IntegrityError")
             ELSE /\ tx' = [tx EXCEPT ![w] = [tx[w] EXCEPT !.pc = "ready",
                                                           !.rating = Some(ins.rating)]]
                  /\ UNCHANGED <<resp, history>>
    /\ UNCHANGED <<directors, genres, movies, movie_genres, movie_ratings,
                   movie_id_seq, movie_times, now>>

\* the UPDATE the flush emits for a loaded movie: the columns with a net change
ChangedColumns(row, loaded, assigned) ==
    [c \in DOMAIN row |-> IF assigned[c] # loaded[c] THEN assigned[c] ELSE row[c]]

\* the committed store after the writes of transaction t
WithWrites(db, t) ==
    LET m == t.movie_id
        linked == [db EXCEPT !.movie_genres = (db.movie_genres (-) t.del) (+) t.ins]
    IN  IF t.op = "create_movie"
        THEN [linked EXCEPT
                !.movies = [x \in DOMAIN db.movies \cup {m} |->
                               IF x = m THEN Val(t.assigned) ELSE db.movies[x]],
                !.movie_times = [x \in DOMAIN db.movies \cup {m} |->
                                    IF x = m THEN Val(t.times) ELSE db.movie_times[x]]]
        ELSE IF t.op = "update_movie"
        THEN IF m \in DOMAIN db.movies
             THEN commit(db, [linked EXCEPT
                                !.movies[m] = ChangedColumns(db.movies[m], Val(t.loaded),
                                                             Val(t.assigned))])
             ELSE linked
        ELSE IF t.op = "create_rating"
        THEN [db EXCEPT !.movie_ratings = db.movie_ratings \cup {Val(t.rating)}]
        ELSE db

\* what the handler returns after db.commit()
Returned(t, s) ==
    IF t.op = "create_rating"
    THEN Result(s, 201, "", Some([rating_id |-> Val(t.rating).id,
                                  movie_id  |-> Val(t.rating).movie_id,
                                  score     |-> Val(t.rating).score]))
    ELSE IF t.op = "create_movie"
    THEN WithStatus(get_movie_detail(s, t.movie_id), 201)
    ELSE get_movie_detail(s, t.movie_id)

\* db.commit() of create_movie, update_movie and create_rating: the flush of
\* the pending UPDATE, then the writes of the transaction become visible
Commit(w) ==
    /\ tx[w].pc = "ready"
    /\ IF /\ tx[w].op = "update_movie"
          /\ Val(tx[w].assigned) # Val(tx[w].loaded)
          /\ tx[w].movie_id \notin DOMAIN movies
       THEN Abort(w, 500, "StaleDataError") /\ UnchangedStore
       ELSE \E s \in {WithWrites(Db, tx[w])} :
               \E r \in {Returned(tx[w], s)} :
                   /\ Install(s)
                   /\ tx' = Observed([tx EXCEPT ![w] = Idle], s, tx[w].del)
                   /\ Return(tx[w].op, tx[w].movie_id, tx[w].payload,
                             r.code, r.message, r.data, {})

\* delete_movie: the movie is loaded with its genres and marked deleted
DeleteMovieLoad(w, movie_ids) ==
    /\ Accepts(w)
    /\ \E movie_id \in movie_ids :
          \E r \in {DELETE_movies_id(Db, movie_id)} :
              IF r.code # 204
              THEN Refuse("delete_movie", movie_id, None, r)
              ELSE Step(w, [Idle EXCEPT !.pc = "marked", !.op = "delete_movie",
                                        !.movie_id = movie_id,
                                        !.loaded = Some(BridgeOf(movie_genres, movie_id))])

\* delete_movie: db.commit() flushes the DELETE of the loaded bridge rows and
\* of the movie, once no other open transaction holds a lock on them
DeleteMovieCommit(w) ==
    /\ tx[w].pc = "marked"
    /\ \A v \in Sessions \ {w} : ~LocksMovie(tx[v], tx[w].movie_id)
    /\ IF \/ tx[w].movie_id \notin DOMAIN movies
          \/ BridgeOf(movie_genres, tx[w].movie_id) # Val(tx[w].loaded)
       THEN Abort(w, 500, "StaleDataError") /\ UnchangedStore
       ELSE \E s \in {commit(Db, Repo_delete_movie(Db, tx[w].movie_id))} :
               /\ Install(s)
               /\ tx' = Observed([tx EXCEPT ![w] = Idle], s, Val(tx[w].loaded))
               /\ Return("delete_movie", tx[w].movie_id, None, 204, "", None, {})

\* get_movie_by_id: the SELECT of the movie row
GetMovieDetailRow(w, movie_ids) ==
    /\ Accepts(w)
    /\ \E movie_id \in movie_ids :
          \E r \in {GET_movies_id(Db, movie_id)} :
              IF r.code # 200
              THEN Refuse("get_movie_detail", movie_id, None, r)
              ELSE Step(w, [Idle EXCEPT !.pc = "row_read", !.op = "get_movie_detail",
                                        !.movie_id = movie_id,
                                        !.view = r.data,
                                        !.states = {r.data}])

\* get_movie_by_id: the second SELECT, of selectinload(Movie.genres)
GetMovieDetailGenres(w) ==
    /\ tx[w].pc = "row_read"
    /\ Step(w, [tx[w] EXCEPT !.pc = "genres_read",
                             !.view = Some([Val(@) EXCEPT
                                             !.genres = MovieGenres(Db, tx[w].movie_id)])])

\* get_rating_stats: the third SELECT; the response is assembled
GetMovieDetailStats(w) ==
    /\ tx[w].pc = "genres_read"
    /\ \E stats \in {get_rating_stats(Db, tx[w].movie_id)} :
          Return("get_movie_detail", tx[w].movie_id, None, 200, "",
                 Some([Val(tx[w].view) EXCEPT !.average_rating = AvgVal(stats[1]),
                                              !.ratings_count = stats[2]]),
                 tx[w].states)
    /\ tx' = [tx EXCEPT ![w] = Idle]
    /\ UnchangedStore

\* Interleaving: two workers create, update, rate, delete and read movies
TxCreateInputs == {Plain, [Plain EXCEPT !.genre_ids = <<1>>]}
TxUpdateInputs ==
    {[Absent EXCEPT !.genre_ids = Some(<<1>>)],
     [Absent EXCEPT !.title = Some(<<"A", "b">>), !.genre_ids = Some(<<2>>)],
     [Absent EXCEPT !.release_year = Some(2000)],
     [Absent EXCEPT !.genre_ids = Some(<<3>>)]}
TxRatingInputs == [score : {4, 11}]

NextTx ==
    \E w \in Sessions :
        \/ CreateMovieFlush(w, TxCreateInputs, MaxMovieId)
        \/ CreateMovieLink(w)
        \/ UpdateMovieLoad(w, 1..MaxMovieId, TxUpdateInputs)
        \/ UpdateMovieDeleteStart(w)
        \/ UpdateMovieDeleteEnd(w)
        \/ UpdateMovieInsert(w)
        \/ CreateRatingCheck(w, 1..MaxMovieId, TxRatingInputs)
        \/ CreateRatingFlush(w)
        \/ Commit(w)
        \/ DeleteMovieLoad(w, 1..MaxMovieId)
        \/ DeleteMovieCommit(w)
        \/ GetMovieDetailRow(w, 1..MaxMovieId)
        \/ GetMovieDetailGenres(w)
        \/ GetMovieDetailStats(w)

SpecTx == Init /\ [][NextTx]_vars

\* Interleaved ratings: workers rate a movie, read its detail and delete it
RatingTxCreateInputs == {Plain}
RatingTxInputs == [score : {4, 8}]

NextRatingTx ==
    \/ CreateMovie(RatingTxCreateInputs, MaxRatedMovies)
    \/ \E w \in Sessions :
          \/ CreateRatingCheck(w, 1..MaxRatedMovies, RatingTxInputs)
          \/ CreateRatingFlush(w)
          \/ Commit(w)
          \/ DeleteMovieLoad(w, 1..MaxRatedMovies)
          \/ DeleteMovieCommit(w)
          \/ GetMovieDetailRow(w, 1..MaxRatedMovies)
          \/ GetMovieDetailGenres(w)
          \/ GetMovieDetailStats(w)

SpecRatingTx == Init /\ [][NextRatingTx]_vars

\* list calls answered so far
PagesRead == SelectSeq(history, LAMBDA h : h.op = "get_movies_list")

\* A client reads the list page by page: page 1 with a page size of its choice,
\* then the next page with the same page size and no filter.  The page is the
\* result of the one SELECT ... ORDER BY id OFFSET ... LIMIT of
\* get_movies_paginated over what is committed when it runs.
ListMoviesPage(page_sizes) ==
    /\ Len(PagesRead) < MaxPage
    /\ \E page_size \in page_sizes :
          /\ PagesRead # <<>> => page_size = PagesRead[1].request.page_size
          /\ \E q \in {[page |-> Len(PagesRead) + 1, page_size |-> page_size,
                         title |-> None, release_year |-> None, genre |-> None]} :
                \E r \in {GET_movies(Db, q.page, q.page_size, q.title, q.release_year,
                                      q.genre)} :
                    /\ Return("get_movies_list", 0, q, r.code, r.message, r.data, {})
                    /\ UnchangedStore
                    /\ UNCHANGED tx

\* Paging under inserts: CreateMovie requests run in their steps on two workers
\* while the client pages through the list
PagingCreateInputs == {Plain, [Plain EXCEPT !.genre_ids = <<1>>]}
PagingPageSizes == {1, 2}

NextPaging ==
    \/ ListMoviesPage(PagingPageSizes)
    \/ \E w \in Sessions :
          \/ CreateMovieFlush(w, PagingCreateInputs, MaxListedMovies)
          \/ CreateMovieLink(w)
          \/ Commit(w)

SpecPaging == Init /\ [][NextPaging]_vars

\* Timestamps: the server clock advances between requests that create movies
\* and update their columns, their genre links, or both
Tick ==
    /\ now < MaxNow
    /\ now' = now + 1
    /\ UNCHANGED <<directors, genres, movies, movie_genres, movie_ratings,
                   movie_id_seq, rating_id_seq, movie_times, resp, tx, history>>

ClockCreateInputs == {Plain, [Plain EXCEPT !.genre_ids = <<1>>]}
ClockUpdateInputs ==
    {Absent,
     [Absent EXCEPT !.title = Some(<<"A", "b">>)],
     [Absent EXCEPT !.genre_ids = Some(<<2>>)],
     [Absent EXCEPT !.release_year = Some(2000), !.genre_ids = Some(<<>>)]}

NextClock ==
    \/ CreateMovie(ClockCreateInputs, MaxMovieId)
    \/ UpdateMovie(ClockUpdateInputs)
    \/ Tick

SpecClock == Init /\ [][NextClock]_vars

---------------------------------------------------------------------------
(* Properties of movie creation and update, checked under Spec *)

HasMissingGenre(genre_ids) == \E i \in 1..Len(genre_ids) : genre_ids[i] \notin DOMAIN genres

\* C1: CreateMovie with a director_id that matches no stored director fails
\* with BadRequest (400) and writes nothing: movies, genre links and ratings
\* are as before, whatever the other fields and genre_ids are.
C1_CreateUnknownDirector ==
    \A payload \in CreatePayloads :
        payload.director_id \notin directors =>
            LET r == POST_movies(Db, payload)
            IN  /\ r.code = 400
                /\ r.db.movies = movies
                /\ r.db.movie_genres = movie_genres
                /\ r.db.movie_ratings = movie_ratings

\* a create was refused for its director while movies with genre links are stored
C1_Witness ==
    /\ resp = [op |-> "create_movie", code |-> 400,
               message |-> "director_id does not exist"]
    /\ DOMAIN movies # {}
    /\ DOMAIN movie_genres # {}

\* C2: CreateMovie, or UpdateMovie of a stored movie, whose genre_ids holds an
\* id of no stored genre fails with BadRequest (400) and commits nothing: no
\* movie row is added, the genre links are as before, and none of the title,
\* director_id, release_year or cast of the same request is stored.
C2_UnknownGenreCommitsNothing ==
    /\ \A payload \in CreatePayloads :
          HasMissingGenre(payload.genre_ids) =>
              LET r == POST_movies(Db, payload)
              IN  r.code = 400 /\ r.db = Db
    /\ \A movie_id \in DOMAIN movies : \A payload \in UpdatePayloads :
          (~IsNone(payload.genre_ids) /\ HasMissingGenre(Val(payload.genre_ids))) =>
              LET r == PUT_movies_id(Db, movie_id, payload)
              IN  r.code = 400 /\ r.db = Db

\* an update carrying a new title was refused for its genre_ids, and the
\* stored movies still have genre links and their first title
C2_Witness ==
    /\ resp = [op |-> "update_movie", code |-> 400,
               message |-> "One or more genre_ids do not exist"]
    /\ DOMAIN movies # {}
    /\ \A m \in DOMAIN movies : movies[m].title = <<"a">> /\ GenreSet(Db, m) # {}

\* C3: a successful UpdateMovie leaves the genre links as they were when
\* genre_ids is absent, removes them all when genre_ids is the empty list, and
\* otherwise stores exactly one link per distinct id of the list.
C3_GenreReplacement ==
    \A movie_id \in DOMAIN movies : \A payload \in UpdatePayloads :
        LET r == PUT_movies_id(Db, movie_id, payload)
            before == [g \in DOMAIN genres |-> CopiesIn(<<movie_id, g>>, movie_genres)]
            after == [g \in DOMAIN genres |-> CopiesIn(<<movie_id, g>>, r.db.movie_genres)]
        IN  r.code = 200 =>
              /\ IsNone(payload.genre_ids) => after = before
              /\ payload.genre_ids = Some(<<>>) => GenreSet(r.db, movie_id) = {}
              /\ (~IsNone(payload.genre_ids) /\ Val(payload.genre_ids) # <<>>) =>
                    /\ GenreSet(r.db, movie_id) = SeqToSet(Val(payload.genre_ids))
                    /\ \A g \in DOMAIN genres : after[g] <= 1

\* an update replaced the links {1, 2} of the only movie by {2}
C3_Witness ==
    /\ resp = [op |-> "update_movie", code |-> 200, message |-> ""]
    /\ movie_id_seq = 2
    /\ DOMAIN movies = {1}
    /\ GenreSet(Db, 1) = {2}

\* C4: a successful UpdateMovie stores the supplied value of each field the
\* payload carries, keeps the stored value of each field it leaves None, and
\* changes no other movie.
C4_PartialUpdate ==
    \A movie_id \in DOMAIN movies : \A payload \in UpdatePayloads :
        LET r == PUT_movies_id(Db, movie_id, payload)
            old == movies[movie_id]
            new == r.db.movies[movie_id]
        IN  r.code = 200 =>
              /\ DOMAIN r.db.movies = DOMAIN movies
              /\ new.title = IF IsNone(payload.title) THEN old.title
                             ELSE Val(payload.title)
              /\ new.director_id = IF IsNone(payload.director_id) THEN old.director_id
                                   ELSE Val(payload.director_id)
              /\ new.release_year = IF IsNone(payload.release_year) THEN old.release_year
                                    ELSE Val(payload.release_year)
              /\ new.cast = IF IsNone(payload.cast) THEN old.cast ELSE payload.cast
              /\ \A other \in DOMAIN movies \ {movie_id} :
                    r.db.movies[other] = movies[other]

\* an update changed director, year and cast of one movie and kept its title,
\* while a second movie is stored
C4_Witness ==
    /\ resp = [op |-> "update_movie", code |-> 200, message |-> ""]
    /\ Cardinality(DOMAIN movies) = 2
    /\ \E m \in DOMAIN movies :
          /\ movies[m] = [title |-> <<"a">>, director_id |-> 2,
                          release_year |-> 2000, cast |-> Some("x")]
          /\ \A o \in DOMAIN movies \ {m} : movies[o].director_id = 1

---------------------------------------------------------------------------
(* Properties of the movie list, checked under SpecList *)

ItemIds(r) == {Val(r.data).items[i].id : i \in 1..Len(Val(r.data).items)}

\* C5: for every page >= 1, page_size in 1..100 and filters, ListMovies
\* returns exactly the movies at positions (page-1)*page_size ..
\* (page-1)*page_size + page_size - 1 of the ascending-id list of the matching
\* movies, and total_items is the number of all matching movies.
C5_Pagination ==
    \A q \in [page : Pages, page_size : PageSizes,
              title : {None, Some(<<"a">>), Some(<<"B">>), Some(<<"_">>)},
              release_year : YearFilters,
              genre : {None, Some(<<"d", "r", "a">>), Some(<<"_">>)}] :
        LET r == GET_movies(Db, q.page, q.page_size, q.title, q.release_year, q.genre)
            matching == {m \in DOMAIN movies :
                            Conditions(Db, m, q.title, q.release_year, q.genre)}
            first == (q.page - 1) * q.page_size
            items == Val(r.data).items
        IN  /\ r.code = 200
            /\ Val(r.data).total_items = Cardinality(matching)
            /\ Len(items) <= q.page_size
            /\ ItemIds(r) = {m \in matching :
                                LET before == Cardinality({o \in matching : o < m})
                                IN  before >= first /\ before <= first + q.page_size - 1}
            /\ \A i \in 1..Len(items) :
                  Cardinality({o \in matching : o < items[i].id}) = first + i - 1
            /\ first >= Cardinality(matching) => items = <<>>

\* a list was returned from a store of three movies, where pages of one and
\* two items differ
C5_Witness ==
    /\ resp = [op |-> "get_movies_list", code |-> 200, message |-> ""]
    /\ Cardinality(DOMAIN movies) = 3
    /\ Len(Val(GET_movies(Db, 2, 2, None, None, None).data).items) = 1

\* s contains f as a substring, ignoring case
Contains(s, f) ==
    \E i \in 0..(Len(s) - Len(f)) :
        SubSeq(LowerStr(s), i + 1, i + Len(f)) = LowerStr(f)

\* the matching set the claim describes
MatchesByClaim(m, title, release_year, genre) ==
    /\ IsNone(title) \/ Contains(movies[m].title, Val(title))
    /\ IsNone(release_year) \/ movies[m].release_year = Val(release_year)
    /\ IsNone(genre) \/ \E g \in GenreSet(Db, m) : Contains(genres[g], Val(genre))

ListedIsClaimed(q) ==
    LET r == GET_movies(Db, 1, MaxPageSize, q.title, q.release_year, q.genre)
    IN  /\ r.code = 200
        /\ ItemIds(r) = {m \in DOMAIN movies :
                            MatchesByClaim(m, q.title, q.release_year, q.genre)}

\* C6: for every combination of filters and every filter string, a movie is
\* listed iff its title contains the title filter (ignoring case), its
\* release_year equals the year filter and one of its genres has a name
\* containing the genre filter (ignoring case), each only when supplied; a
\* movie without genres never matches a supplied genre filter.
C6_FilterSemantics ==
    \A q \in [title : TitleFilters \cup WildTitleFilters, release_year : YearFilters,
              genre : GenreFilters \cup WildGenreFilters] :
        ListedIsClaimed(q)

\* C6, restricted: the same statement for filter strings without % and _ and
\* a genre filter that is not the empty string
C6_LiteralFilters ==
    \A q \in [title : TitleFilters, release_year : YearFilters,
              genre : GenreFilters \ {Some(<<>>)}] :
        ListedIsClaimed(q)

---------------------------------------------------------------------------
(* Properties of ratings, deletion and unknown movies, checked under       *)
(* SpecRatings                                                             *)

\* C7: every stored rating has a score in 1..10; a CreateRating whose score
\* is below 1 or above 10 is rejected with 422 and the store is unchanged.
C7_ScoreRange ==
    /\ \A rating \in movie_ratings : rating.score >= 1 /\ rating.score <= 10
    /\ \A movie_id \in MovieIds : \A payload \in RatingPayloads :
          (payload.score < 1 \/ payload.score > 10) =>
              LET r == POST_movies_id_ratings(Db, movie_id, payload)
              IN  r.code = 422 /\ r.db = Db

\* a rating was refused by the schema while ratings are stored
C7_Witness ==
    /\ resp = [op |-> "create_rating", code |-> 422, message |-> "validation error"]
    /\ movie_ratings # {}

RECURSIVE WeightedCount(_, _)
WeightedCount(m, v) ==
    IF v = 0 THEN 0
    ELSE v * Cardinality({x \in movie_ratings : x.movie_id = m /\ x.score = v})
         + WeightedCount(m, v - 1)

AggregateOf(m, average_rating, ratings_count) ==
    LET n == Cardinality({x \in movie_ratings : x.movie_id = m})
    IN  /\ ratings_count = n
        /\ n = 0 => IsNone(average_rating)
        /\ n > 0 => /\ ~IsNone(average_rating)
                    /\ Val(average_rating).num * n
                          = WeightedCount(m, 10) * Val(average_rating).den

\* C8: the aggregate GetMovieDetail and ListMovies report for a movie has
\* ratings_count equal to the number of its stored ratings and
\* average_rating None when there are none, else the sum of its scores
\* divided by their number; ratings of other movies do not enter.
C8_Aggregate ==
    /\ \A m \in DOMAIN movies :
          LET r == GET_movies_id(Db, m)
          IN  /\ r.code = 200
              /\ AggregateOf(m, Val(r.data).average_rating, Val(r.data).ratings_count)
    /\ \A page \in Pages : \A page_size \in PageSizes :
          LET r == GET_movies(Db, page, page_size, None, None, None)
              items == Val(r.data).items
          IN  /\ r.code = 200
              /\ \A i \in 1..Len(items) :
                    AggregateOf(items[i].id, items[i].average_rating,
                                items[i].ratings_count)

\* the detail of a movie rated 4, 6 and 8 was returned with average 18/3 and
\* count 3
C8_Witness ==
    /\ resp = [op |-> "get_movie_detail", code |-> 200, message |-> ""]
    /\ \E m \in DOMAIN movies :
          /\ {x.score : x \in {y \in movie_ratings : y.movie_id = m}} = {4, 6, 8}
          /\ Val(GET_movies_id(Db, m).data).average_rating = Some([num |-> 18, den |-> 3])
          /\ Val(GET_movies_id(Db, m).data).ratings_count = 3

\* C9: after a successful DeleteMovie(id) the store holds no movie, rating or
\* genre link of that id, and every other movie with its ratings and links,
\* and all directors and genres, are as before.
C9_DeleteCascade ==
    \A movie_id \in MovieIds :
        LET r == DELETE_movies_id(Db, movie_id)
        IN  /\ movie_id \in DOMAIN movies => r.code = 204
            /\ r.code = 204 =>
                  /\ movie_id \notin DOMAIN r.db.movies
                  /\ \A x \in r.db.movie_ratings : x.movie_id # movie_id
                  /\ \A row \in DOMAIN r.db.movie_genres : row[1] # movie_id
                  /\ DOMAIN r.db.movies = DOMAIN movies \ {movie_id}
                  /\ \A o \in DOMAIN movies \ {movie_id} : r.db.movies[o] = movies[o]
                  /\ r.db.movie_ratings = {x \in movie_ratings : x.movie_id # movie_id}
                  /\ \A row \in DOMAIN movie_genres :
                        row[1] # movie_id =>
                            CopiesIn(row, r.db.movie_genres) = movie_genres[row]
                  /\ r.db.directors = directors
                  /\ r.db.genres = genres

\* movie 1 was deleted with its ratings; movie 2 keeps its rating and links
C9_Witness ==
    /\ resp = [op |-> "delete_movie", code |-> 204, message |-> ""]
    /\ DOMAIN movies = {2}
    /\ GenreSet(Db, 2) = {1, 2}
    /\ movie_ratings # {}
    /\ rating_id_seq > Cardinality(movie_ratings) + 1

\* C10: GetMovieDetail, UpdateMovie, DeleteMovie and CreateRating on an id of
\* no stored movie fail with NotFound (404) and leave the store unchanged;
\* UpdateMovie answers 404 whatever director_id and genre_ids it carries.
C10_UnknownMovie ==
    \A movie_id \in MovieIds \ DOMAIN movies :
        /\ LET r == GET_movies_id(Db, movie_id)
           IN  r.code = 404 /\ r.db = Db
        /\ \A payload \in [title : {None}, director_id : Opt(DirectorIds),
                          release_year : {None}, cast : {None},
                          genre_ids : Opt(GenreIdLists)] :
              LET r == PUT_movies_id(Db, movie_id, payload)
              IN  r.code = 404 /\ r.db = Db
        /\ LET r == DELETE_movies_id(Db, movie_id)
           IN  r.code = 404 /\ r.db = Db
        /\ \A payload \in [score : 1..10] :
              LET r == POST_movies_id_ratings(Db, movie_id, payload)
              IN  r.code = 404 /\ r.db = Db

\* a rating for a deleted movie was refused while a movie and a rating are stored
C10_Witness ==
    /\ resp = [op |-> "create_rating", code |-> 404, message |-> "Movie not found"]
    /\ DOMAIN movies # {}
    /\ movie_ratings # {}
    /\ movie_id_seq > Cardinality(DOMAIN movies) + 1

---------------------------------------------------------------------------
(* Uniqueness of genre links, checked under Spec *)

NoDuplicateLinks(s) == \A row \in DOMAIN s.movie_genres : s.movie_genres[row] = 1

DistinctEntries(xs) == \A i, j \in 1..Len(xs) : xs[i] = xs[j] => i = j

\* genre_ids lists of a request, among them lists that repeat an id
RepeatedGenreIdLists == GenreIdLists \cup {<<2, 1, 2>>, <<2, 2, 2>>, <<1, 2, 1, 2>>}

\* C11: in every state reached by CreateMovie, UpdateMovie and DeleteMovie
\* calls, also calls whose genre_ids repeats an id, the bridge holds at most
\* one row per (movie_id, genre_id) and the genres of the detail view hold each
\* genre at most once.
C11_GenreLinksUnique ==
    /\ NoDuplicateLinks(Db)
    /\ \A m \in DOMAIN movies :
          DistinctEntries(Val(GET_movies_id(Db, m).data).genres)
    /\ \A genre_ids \in RepeatedGenreIdLists :
          /\ LET r == POST_movies(Db, [Plain EXCEPT !.genre_ids = genre_ids])
             IN  /\ NoDuplicateLinks(r.db)
                 /\ r.code = 201 => /\ DistinctEntries(Val(r.data).genres)
                                    /\ SeqToSet(Val(r.data).genres) = SeqToSet(genre_ids)
          /\ \A m \in DOMAIN movies :
                LET r == PUT_movies_id(Db, m, [Absent EXCEPT !.genre_ids = Some(genre_ids)])
                IN  /\ NoDuplicateLinks(r.db)
                    /\ r.code = 200 => /\ DistinctEntries(Val(r.data).genres)
                                       /\ SeqToSet(Val(r.data).genres) = SeqToSet(genre_ids)

\* the first movie was created from genre_ids [2, 1, 2] and is linked to
\* genres 1 and 2
C11_Witness ==
    /\ resp = [op |-> "create_movie", code |-> 201, message |-> ""]
    /\ movie_id_seq = 2
    /\ GenreSet(Db, 1) = {1, 2}
    /\ Len(Val(GET_movies_id(Db, 1).data).genres) = 2

---------------------------------------------------------------------------
(* Timestamps, checked under SpecClock *)

\* the updates the timestamp properties range over
ClockUpdatePayloads ==
    [title : Opt(Titles), director_id : {None, Some(2)}, release_year : Opt(Years),
     cast : Casts, genre_ids : Opt({<<>>, <<1>>, <<2>>, <<1, 2>>})]

\* an update of movie m made after its last write refreshes updated_at when
\* it changes what changes(r) says, and leaves created_at alone
RefreshedWhen(changes(_, _)) ==
    \A m \in DOMAIN movies : \A payload \in ClockUpdatePayloads :
        LET r == PUT_movies_id(Db, m, payload)
        IN  (r.code = 200 /\ now > movie_times[m].updated_at) =>
                /\ r.db.movie_times[m].created_at = movie_times[m].created_at
                /\ changes(r, m) =>
                      r.db.movie_times[m].updated_at > movie_times[m].updated_at

ColumnsChange(r, m) == r.db.movies[m] # movies[m]

LinksChange(r, m) == GenreSet(r.db, m) # GenreSet(Db, m)

StoredStateChanges(r, m) == ColumnsChange(r, m) \/ LinksChange(r, m)

\* C15: after a successful UpdateMovie that changes the stored state of the
\* movie, also one that supplies only genre_ids and changes only the genre
\* links, updated_at is later than before the call; created_at never changes.
C15_UpdatedAtRefreshed == RefreshedWhen(StoredStateChanges)

\* C15, restricted: the same for updates that change a column of the movie row
C15_ColumnUpdatesRefresh == RefreshedWhen(ColumnsChange)

---------------------------------------------------------------------------
(* Interleaved requests, checked under SpecTx *)

\* the response h is that of an UpdateMovie that replaced the genre links
\* and committed
ReplacedGenres(h) ==
    /\ h.op = "update_movie"
    /\ h.code = 200
    /\ ~IsNone(h.request.genre_ids)

\* C13: when UpdateMovie requests with genre_ids run at the same time on one
\* movie and commit, the genre set of the movie after the last commit is the
\* set of the request that committed last, never a union or mixture, and none
\* of them fails because of the other.
C13_LastCommitWins ==
    (\A i \in 1..Len(history) : history[i].op # "delete_movie") =>
        /\ \A i \in 1..Len(history) :
              (history[i].op = "update_movie" /\ ~IsNone(history[i].request.genre_ids)) =>
                  history[i].code # 500
        /\ history # <<>> =>
              LET last == history[Len(history)]
              IN  ReplacedGenres(last) =>
                      GenreSet(Db, last.movie_id) = SeqToSet(Val(last.request.genre_ids))

StoreVars == <<directors, genres, movies, movie_genres, movie_ratings, movie_times>>

\* C12: each mutating operation is atomic for other requests: what a
\* GetMovieDetail that runs at the same time returns is the movie as it is
\* committed before a whole operation or after a whole operation, that is,
\* the movie of one of the committed states that existed while it ran, never
\* a state in between.
C12_AtomicVisibility ==
    \A i \in 1..Len(history) :
        (history[i].op = "get_movie_detail" /\ history[i].code = 200) =>
            history[i].data \in history[i].states

\* C12, the part on writes: the committed store changes only in the step that
\* returns the success of one operation, and a request that fails leaves it
\* as it was
C12_WritesAreWhole ==
    [][StoreVars' # StoreVars =>
          /\ Len(history') = Len(history) + 1
          /\ history'[Len(history')].op \in
                {"create_movie", "update_movie", "delete_movie", "create_rating"}
          /\ history'[Len(history')].code \in {200, 201, 204}]_vars

---------------------------------------------------------------------------
(* Interleaved ratings, checked under SpecRatingTx *)

\* positions in the history of the CreateRating requests on movie m that
\* returned success
RatedOk(m) ==
    {i \in 1..Len(history) :
        /\ history[i].op = "create_rating"
        /\ history[i].movie_id = m
        /\ history[i].code = 201}

RatingsOf(rows, m) == {x \in rows : x.movie_id = m}

\* C14: for each stored movie, the ratings stored for it are exactly those of
\* the CreateRating requests that returned success, however the requests were
\* interleaved: as many rows as successes, each success with its own id and
\* the score of its request; a GetMovieDetail reports a count and average over
\* all ratings committed when it starts; and the rating count of a movie never
\* decreases while the movie is stored.
C14_ConcurrentRatings ==
    /\ [](\A m \in DOMAIN movies :
            /\ Cardinality(RatingsOf(movie_ratings, m)) = Cardinality(RatedOk(m))
            /\ \A i \in RatedOk(m) :
                  /\ [id       |-> Val(history[i].data).rating_id,
                      movie_id |-> m,
                      score    |-> history[i].request.score] \in movie_ratings
                  /\ \A j \in RatedOk(m) :
                        Val(history[j].data).rating_id = Val(history[i].data).rating_id
                            => i = j
            /\ LET r == GET_movies_id(Db, m)
               IN  AggregateOf(m, Val(r.data).average_rating, Val(r.data).ratings_count))
    /\ [](\A i \in 1..Len(history) :
            (/\ history[i].op = "get_movie_detail"
             /\ history[i].code = 200
             /\ None \notin history[i].states) =>
                /\ \A s \in history[i].states :
                      Val(history[i].data).ratings_count >= Val(s).ratings_count
                /\ \E s \in history[i].states :
                      /\ Val(s).ratings_count = Val(history[i].data).ratings_count
                      /\ Val(s).average_rating = Val(history[i].data).average_rating)
    /\ [][\A m \in DOMAIN movies \cap DOMAIN movies' :
            Cardinality(RatingsOf(movie_ratings', m))
                >= Cardinality(RatingsOf(movie_ratings, m))]_vars

\* two ratings of movie 1 were returned in the order opposite to their ids,
\* and a detail of the movie that began after both reports count 2 and
\* average 12/2
C14_Witness ==
    /\ Len(history) = 3
    /\ history[1].op = "create_rating" /\ history[1].code = 201
    /\ history[2].op = "create_rating" /\ history[2].code = 201
    /\ Val(history[1].data) = [rating_id |-> 2, movie_id |-> 1, score |-> 8]
    /\ Val(history[2].data) = [rating_id |-> 1, movie_id |-> 1, score |-> 4]
    /\ history[3].op = "get_movie_detail"
    /\ Cardinality(history[3].states) = 1
    /\ Val(history[3].data).ratings_count = 2
    /\ Val(history[3].data).average_rating = Some([num |-> 12, den |-> 2])

\* ids of the items of a list response
PageIds(h) == [i \in 1..Len(Val(h.data).items) |-> Val(h.data).items[i].id]

\* movies stored when the client made its first list call: those whose creation
\* was answered before it (nothing is deleted while the client pages)
StoredBeforeFirstPage ==
    {history[i].movie_id : i \in {j \in 1..Len(history) :
        /\ history[j].op = "create_movie" /\ history[j].code = 201
        /\ \E k \in j + 1..Len(history) : history[k].op = "get_movies_list"
        /\ \A k \in 1..j : history[k].op # "get_movies_list"}}

PagesAscending ==
    \A p \in 1..Len(PagesRead) :
        \A i \in 1..Len(PageIds(PagesRead[p])) - 1 :
            PageIds(PagesRead[p])[i] < PageIds(PagesRead[p])[i + 1]

PagesDisjoint ==
    \A p, q \in 1..Len(PagesRead) :
        p # q => SeqToSet(PageIds(PagesRead[p])) \cap SeqToSet(PageIds(PagesRead[q])) = {}

\* once a page came back short the client has covered every position
PagesCover ==
    (/\ PagesRead # <<>>
     /\ Len(PageIds(PagesRead[Len(PagesRead)])) < PagesRead[1].request.page_size)
    => \A m \in StoredBeforeFirstPage :
          \E p \in 1..Len(PagesRead) : m \in SeqToSet(PageIds(PagesRead[p]))

\* C16: while CreateMovie requests commit between the list calls for pages
\* 1, 2, ..., k of one page size, every page is in strictly ascending id order,
\* no movie is returned on two pages, and every movie stored before the first
\* call is returned on exactly one page
C16_StablePagination == PagesAscending /\ PagesDisjoint /\ PagesCover

\* the part of C16 that inserts cannot break: pages are ascending and no movie
\* stored before the first call is skipped
C16_OrderedAndNothingSkipped == PagesAscending /\ PagesCover

====
